---- MODULE Spec2Model ----
(***************************************************************************)
(* Conflict detection (conflict.py) and the ticket submission log         *)
(* (ticket_submission_log.py) of the GN ticket automator.                  *)
(*                                                                         *)
(* Python values are encoded as follows.                                   *)
(*   - An optional value is a tuple: None is <<>>, a present value v is    *)
(*     <<v>>.                                                              *)
(*   - A str that the code transforms (school, teacher, status, e-mail)    *)
(*     is a sequence of one-character strings, so that strip() and         *)
(*     lower() are computed and not assumed.                               *)
(*   - A str the code only copies or compares (ids, titles, ticket ids)    *)
(*     is a TLA+ string.                                                   *)
(*   - A datetime is an integer number of minutes (detector) or of clock   *)
(*     ticks (log store) on the UTC time line; an ISO-8601 string is a     *)
(*     record [iso |-> TRUE, t |-> instant], an unparsable string is       *)
(*     [iso |-> FALSE, t |-> 0].                                           *)
(*   - A duration that is a number is the integer field length. A session  *)
(*     or entry whose duration is not a number has no field length but a   *)
(*     field length_not_int: None, or the str as a sequence of characters. *)
(***************************************************************************)
EXTENDS Integers, Sequences, FiniteSets, TLC

VARIABLES
    candidate_sessions,         \* the batch handed to check_for_time_conflicts
    existing_sessions,          \* the already committed sessions
    historical_ticket_entries,  \* the log entries handed to the detector
    calls,                      \* per call of the detector: the batch on entry, the list returned
    now,                        \* the UTC clock, in seconds
    retention_days,             \* TicketSubmissionLog.retention_days
    users,                      \* table users: the e-mails that have a User row
    ticket_submissions,         \* table ticket_submissions, in insertion order
    query,                      \* the get_entries call in progress, between its two transactions
    read,                       \* the last get_entries call that returned
    appended,                   \* the add_successful_submissions calls so far
    prunes,                     \* the latest executions of prune
    airtable,                   \* per user: the Booked sessions without ticket that Airtable returns
    queue,                      \* the broker's queue of Celery tasks
    running,                    \* per worker: the task it executes, if any
    scan_results,               \* table scan_results, in insertion order
    outbox,                     \* the conflict e-mails sent
    finished,                   \* the task that ended last, with what it did
    flask_session,              \* session['book_sessions'] of the signed-in user
    handed,                     \* the last call of gn_ticket_handler by do_gn_ticket
    progress_store,             \* per progress session id: the retained entries, oldest first
    progress_counters,          \* per progress session id: the sequence counter
    progress_lock,              \* the thread that holds progress_lock, if any
    threads,                    \* per thread: the progress function and line it executes, if any
    set_calls,                  \* per id: the set_progress calls that returned since its last clear
    progress                    \* the list the last get_progress returned, with its id

detectorVars ==
    <<candidate_sessions, existing_sessions, historical_ticket_entries, calls>>

logVars ==
    <<now, retention_days, users, ticket_submissions, query, read, appended, prunes>>

taskVars == <<airtable, queue, running, scan_results, outbox, finished>>

webVars == <<flask_session, handed>>

progressVars ==
    <<progress_store, progress_counters, progress_lock, threads, set_calls, progress>>

vars == <<detectorVars, logVars, taskVars, webVars, progressVars>>

---------------------------------------------------------------------------
(* Python built-ins *)

None == <<>>

Some(v) == <<v>>

Min(S) == CHOOSE m \in S : \A n \in S : m <= n

\* str.lower() on the model's alphabet
LowerChar(ch) ==
    CASE ch = "A" -> "a"
      [] ch = "B" -> "b"
      [] ch = "S" -> "s"
      [] ch = "T" -> "t"
      [] ch = "U" -> "u"
      [] OTHER -> ch

Lower(s) == [i \in DOMAIN s |-> LowerChar(s[i])]

IsSpace(ch) == ch \in {" ", "\t"}

RECURSIVE LStrip(_)
LStrip(s) ==
    IF s # <<>> /\ IsSpace(Head(s)) THEN LStrip(Tail(s)) ELSE s

RECURSIVE RStrip(_)
RStrip(s) ==
    IF s # <<>> /\ IsSpace(s[Len(s)]) THEN RStrip(SubSeq(s, 1, Len(s) - 1)) ELSE s

\* str.strip()
Strip(s) == RStrip(LStrip(s))

\* (x or "")
OrEmpty(opt) == IF opt = None THEN <<>> ELSE opt[1]

\* a str or None inside an f-string
Str(opt) == IF opt = None THEN "None" ELSE opt[1]

\* (x or "").strip().lower()
Normalized(opt) == Lower(Strip(OrEmpty(opt)))

BOOKED == <<"b", "o", "o", "k", "e", "d">>

\* datetime.isoformat()
isoformat(t) == [iso |-> TRUE, t |-> t]

\* datetime.fromisoformat(); None stands for the ValueError the callers catch
fromisoformat(s) == IF s.iso THEN Some(s.t) ELSE None

\* `x.length or 0` is a number: x.length is one, or it is None or ""
HasMinutes(x) ==
    "length" \in DOMAIN x \/ x.length_not_int \in {None, Some(<<>>)}

\* the number `x.length or 0`, for an x that has one
Minutes(x) == IF "length" \in DOMAIN x THEN x.length ELSE 0

\* int() of a str on the model's alphabet; None stands for the ValueError
IntOfStr(s) == IF s = <<"2">> THEN Some(2) ELSE None

\* lines 101-104 of ticket_submission_log.py: int(entry.get("length", 0) or 0),
\* and 0 when int() raises
LengthOrZero(entry) ==
    IF HasMinutes(entry) THEN Minutes(entry)
    ELSE IF IntOfStr(entry.length_not_int[1]) = None THEN 0
    ELSE IntOfStr(entry.length_not_int[1])[1]

---------------------------------------------------------------------------
(* ticket_submission_log.parse_log_start_and_end *)

parse_log_start_and_end(entry) ==
    LET start_raw == entry.start_time
    IN  IF start_raw = None
        THEN <<None, None>>
        ELSE LET start_time == fromisoformat(start_raw[1])
             IN  IF start_time = None
                 THEN <<None, None>>
                 ELSE <<start_time, Some(start_time[1] + LengthOrZero(entry))>>

---------------------------------------------------------------------------
(* conflict.check_for_time_conflicts *)

NoConflict ==
    [is_conflict |-> FALSE, conflict_details |-> <<>>, conflict_type |-> "None",
     conflict_start_iso |-> None, conflict_end_iso |-> None]

\* mutant of Annotate: the window is not written
AnnotateWithoutWindow(session, ann) ==
    [session EXCEPT !.is_conflict = ann.is_conflict,
                    !.conflict_details = ann.conflict_details,
                    !.conflict_type = ann.conflict_type]

Annotate(session, ann) ==
    [session EXCEPT !.is_conflict = ann.is_conflict,
                    !.conflict_details = ann.conflict_details,
                    !.conflict_type = ann.conflict_type,
                    !.conflict_start_iso = ann.conflict_start_iso,
                    !.conflict_end_iso = ann.conflict_end_iso]

\* mutant of ResetAnnotation: no reset
KeepAnnotation(candidate) == candidate

\* mutant of ResetAnnotation: the reset moved under `if candidate_start:`
ResetOnlyWithStartTime(candidate) ==
    IF candidate.start_time = None THEN candidate ELSE Annotate(candidate, NoConflict)

\* lines 19-23: the reset at the head of the per-candidate loop
ResetAnnotation(candidate) == Annotate(candidate, NoConflict)

\* start + timedelta(minutes=length or 0), for a session that has a start time
EndOf(session) == session.start_time[1] + Minutes(session)

\* lines 45, 71, 114, 159: candidate_start < other_end and other_start < candidate_end
Overlaps(candidate, other_start, other_end) ==
    candidate.start_time[1] < other_end /\ other_start < EndOf(candidate)

IsBooked(session) == Normalized(session.status) = BOOKED

\* mutant of Pass1Match: the schools compared as Pass 1b compares them
Pass1MatchNormalizedSchool(candidate, existing, candidate_ids) ==
    /\ existing.s_id \notin candidate_ids
    /\ Normalized(candidate.school) = Normalized(existing.school)
    /\ IsBooked(existing)
    /\ existing.gn_ticket_requested
    /\ existing.start_time # None
    /\ Overlaps(candidate, existing.start_time[1], EndOf(existing))

\* lines 31-45: an existing session that flags the candidate in Pass 1
Pass1Match(candidate, existing, candidate_ids) ==
    /\ existing.s_id \notin candidate_ids
    /\ candidate.school = existing.school
    /\ IsBooked(existing)
    /\ existing.gn_ticket_requested
    /\ existing.start_time # None
    /\ Overlaps(candidate, existing.start_time[1], EndOf(existing))

\* lines 29-53: Pass 1 for one candidate; the loop breaks at the first match
Pass1(candidate, existing_list, candidate_ids) ==
    IF candidate.start_time = None THEN candidate
    ELSE LET hits == {i \in DOMAIN existing_list :
                        Pass1Match(candidate, existing_list[i], candidate_ids)}
         IN  IF hits = {} THEN candidate
             ELSE LET existing == existing_list[Min(hits)]
                  IN  Annotate(candidate,
                        [is_conflict |-> TRUE,
                         conflict_type |-> "time",
                         conflict_details |->
                            <<"Conflicts with previously booked session '",
                              existing.title, "'.">>,
                         conflict_start_iso |-> Some(isoformat(existing.start_time[1])),
                         conflict_end_iso |-> Some(isoformat(EndOf(existing)))])

\* mutant of Pass1bMatch: the schools compared as Pass 1 compares them
Pass1bMatchExactSchool(candidate, historical_entry) ==
    /\ historical_entry.session_id # Some(candidate.s_id)
    /\ historical_entry.school = candidate.school
    /\ LET parsed == parse_log_start_and_end(historical_entry)
       IN  /\ parsed[1] # None
           /\ Overlaps(candidate, parsed[1][1], parsed[2][1])

\* lines 60-71: a history entry that flags the candidate in Pass 1b
Pass1bMatch(candidate, historical_entry) ==
    /\ historical_entry.session_id # Some(candidate.s_id)
    /\ Normalized(historical_entry.school) = Normalized(candidate.school)
    /\ LET parsed == parse_log_start_and_end(historical_entry)
       IN  /\ parsed[1] # None
           /\ Overlaps(candidate, parsed[1][1], parsed[2][1])

\* mutant of Pass1b: the history is compared whatever Pass 1 found
Pass1bOverriding(candidate, history) ==
    IF candidate.start_time = None THEN candidate
    ELSE LET hits == {i \in DOMAIN history : Pass1bMatch(candidate, history[i])}
         IN  IF hits = {} THEN candidate
             ELSE LET historical_entry == history[Min(hits)]
                      parsed == parse_log_start_and_end(historical_entry)
                  IN  Annotate(candidate,
                        [is_conflict |-> TRUE,
                         conflict_type |-> "ghost_ticket",
                         conflict_details |->
                            <<"Rebooked/ghost ticket conflict with submitted ticket ",
                              Str(historical_entry.ticket_id), " for '",
                              Str(historical_entry.title), "'.">>,
                         conflict_start_iso |-> Some(isoformat(parsed[1][1])),
                         conflict_end_iso |-> Some(isoformat(parsed[2][1]))])

\* lines 55-81: Pass 1b for one candidate, skipped when Pass 1 flagged it
Pass1b(candidate, history) ==
    IF candidate.is_conflict \/ candidate.start_time = None THEN candidate
    ELSE LET hits == {i \in DOMAIN history : Pass1bMatch(candidate, history[i])}
         IN  IF hits = {} THEN candidate
             ELSE LET historical_entry == history[Min(hits)]
                      parsed == parse_log_start_and_end(historical_entry)
                  IN  Annotate(candidate,
                        [is_conflict |-> TRUE,
                         conflict_type |-> "ghost_ticket",
                         conflict_details |->
                            <<"Rebooked/ghost ticket conflict with submitted ticket ",
                              Str(historical_entry.ticket_id), " for '",
                              Str(historical_entry.title), "'.">>,
                         conflict_start_iso |-> Some(isoformat(parsed[1][1])),
                         conflict_end_iso |-> Some(isoformat(parsed[2][1]))])

\* lines 18-84: the first loop, one candidate at a time
FirstLoop(candidates, existing_list, history) ==
    LET candidate_ids == {candidates[i].s_id : i \in DOMAIN candidates}
    IN  [i \in DOMAIN candidates |->
            Pass1b(Pass1(ResetAnnotation(candidates[i]), existing_list, candidate_ids),
                   history)]

RECURSIVE IndicesWithTime(_, _)
IndicesWithTime(candidates, i) ==
    IF i > Len(candidates) THEN <<>>
    ELSE IF candidates[i].start_time # None
         THEN <<i>> \o IndicesWithTime(candidates, i + 1)
         ELSE IndicesWithTime(candidates, i + 1)

\* lines 86-88 and 135-137: the candidates that have a start time, in batch order,
\* as positions in the batch (the list holds the same objects as the batch)
sessions_with_time(candidates) == IndicesWithTime(candidates, 1)

\* mutant of FlagPair: the partner is flagged with its own interval and title
FlagPairOwnWindow(candidates, ci, oi, wording) ==
    LET flag(session, other) ==
            Annotate(session,
                     [is_conflict |-> TRUE,
                      conflict_type |-> "time",
                      conflict_details |-> <<wording, other.title, "'.">>,
                      conflict_start_iso |-> Some(isoformat(other.start_time[1])),
                      conflict_end_iso |-> Some(isoformat(EndOf(other)))])
    IN  [candidates EXCEPT ![ci] = flag(candidates[ci], candidates[oi]),
                           ![oi] = flag(candidates[oi], candidates[oi])]

\* mutant of FlagPair: the partner is left as it is
FlagCandidateOnly(candidates, ci, oi, wording) ==
    LET other == candidates[oi]
    IN  [candidates EXCEPT ![ci] =
            Annotate(@, [is_conflict |-> TRUE,
                         conflict_type |-> "time",
                         conflict_details |-> <<wording, other.title, "'.">>,
                         conflict_start_iso |-> Some(isoformat(other.start_time[1])),
                         conflict_end_iso |-> Some(isoformat(EndOf(other)))])]

\* lines 115-132 and 160-177: flag the candidate and its partner against each other
FlagPair(candidates, ci, oi, wording) ==
    LET candidate == candidates[ci]
        other == candidates[oi]
        flagged == Annotate(candidate,
                     [is_conflict |-> TRUE,
                      conflict_type |-> "time",
                      conflict_details |-> <<wording, other.title, "'.">>,
                      conflict_start_iso |-> Some(isoformat(other.start_time[1])),
                      conflict_end_iso |-> Some(isoformat(EndOf(other)))])
        partner == IF other.is_conflict THEN other
                   ELSE Annotate(other,
                     [is_conflict |-> TRUE,
                      conflict_type |-> "time",
                      conflict_details |-> <<wording, candidate.title, "'.">>,
                      conflict_start_iso |-> Some(isoformat(candidate.start_time[1])),
                      conflict_end_iso |-> Some(isoformat(EndOf(candidate)))])
    IN  [candidates EXCEPT ![ci] = flagged, ![oi] = partner]

\* lines 90-95 and 101-106: a session Pass 2 takes as candidate or as partner
Pass2Eligible(session) ==
    /\ ~session.is_conflict
    /\ IsBooked(session)
    /\ ~session.gn_ticket_requested

\* mutant of Pass2Match: only sessions of one teacher are compared
Pass2MatchSameTeacher(candidate, other) ==
    /\ Pass2Eligible(other)
    /\ candidate.school = other.school
    /\ candidate.teacher = other.teacher
    /\ Overlaps(candidate, other.start_time[1], EndOf(other))

\* lines 100-114
Pass2Match(candidate, other) ==
    /\ Pass2Eligible(other)
    /\ candidate.school = other.school
    /\ Overlaps(candidate, other.start_time[1], EndOf(other))

\* lines 89-133: Pass 2 from position index of sessions_with_time on
RECURSIVE Pass2(_, _, _)
Pass2(candidates, with_time, index) ==
    IF index > Len(with_time) THEN candidates
    ELSE LET candidate == candidates[with_time[index]]
             hits == {k \in (index + 1)..Len(with_time) :
                        Pass2Match(candidate, candidates[with_time[k]])}
         IN  IF ~Pass2Eligible(candidate) \/ hits = {}
             THEN Pass2(candidates, with_time, index + 1)
             ELSE Pass2(FlagPair(candidates, with_time[index], with_time[Min(hits)],
                                 "Conflicts with another booked session '"),
                        with_time, index + 1)

\* mutant of Pass3Match: the teachers are not compared
\* mutant of Pass3Match: only sessions of one school are compared
Pass3MatchSameSchool(candidate, other) ==
    /\ ~other.is_conflict
    /\ candidate.school = other.school
    /\ Normalized(candidate.teacher) = Normalized(other.teacher)
    /\ Overlaps(candidate, other.start_time[1], EndOf(other))

Pass3MatchAnyTeacher(candidate, other) ==
    /\ ~other.is_conflict
    /\ Overlaps(candidate, other.start_time[1], EndOf(other))

\* lines 149-159
Pass3Match(candidate, other) ==
    /\ ~other.is_conflict
    /\ Normalized(candidate.teacher) = Normalized(other.teacher)
    /\ Overlaps(candidate, other.start_time[1], EndOf(other))

\* lines 138-178: Pass 3 from position index of sessions_with_time on
RECURSIVE Pass3(_, _, _)
Pass3(candidates, with_time, index) ==
    IF index > Len(with_time) THEN candidates
    ELSE LET candidate == candidates[with_time[index]]
             hits == {k \in (index + 1)..Len(with_time) :
                        Pass3Match(candidate, candidates[with_time[k]])}
         IN  IF \/ candidate.is_conflict
                \/ Normalized(candidate.teacher) = <<>>
                \/ hits = {}
             THEN Pass3(candidates, with_time, index + 1)
             ELSE Pass3(FlagPair(candidates, with_time[index], with_time[Min(hits)],
                                 "Conflicts with another in-progress session '"),
                        with_time, index + 1)

\* lines 5-180: the list returned, when the call returns
check_for_time_conflicts(candidates, existing_list, history) ==
    LET after_first == FirstLoop(candidates, existing_list, history)
        after_pass2 == Pass2(after_first, sessions_with_time(after_first), 1)
    IN  Pass3(after_pass2, sessions_with_time(after_pass2), 1)

\* lines 31-40: an existing session whose end line 43 computes for the candidate
Pass1Reached(candidate, existing, candidate_ids) ==
    /\ existing.s_id \notin candidate_ids
    /\ candidate.school = existing.school
    /\ IsBooked(existing)
    /\ existing.gn_ticket_requested
    /\ existing.start_time # None

\* line 43: timedelta(minutes=existing.length or 0) raises TypeError on an existing
\* session that Pass 1 reaches before the one it breaks on
Pass1Raises(candidate, existing_list, candidate_ids) ==
    LET reached == {i \in DOMAIN existing_list :
                      Pass1Reached(candidate, existing_list[i], candidate_ids)}
        bad == {i \in reached : ~HasMinutes(existing_list[i])}
        hits == {i \in reached \ bad :
                    Overlaps(candidate, existing_list[i].start_time[1],
                             EndOf(existing_list[i]))}
    IN  bad # {} /\ (hits = {} \/ Min(bad) < Min(hits))

\* lines 26 and 43: the candidates whose turn in the first loop raises TypeError.
\* Passes 2 and 3 compute the ends of candidates only, which line 26 computed.
RaisingCandidates(candidates, existing_list) ==
    LET candidate_ids == {candidates[i].s_id : i \in DOMAIN candidates}
    IN  {i \in DOMAIN candidates :
            /\ candidates[i].start_time # None
            /\ \/ ~HasMinutes(candidates[i])
               \/ Pass1Raises(candidates[i], existing_list, candidate_ids)}

\* the batch as an exception leaves it: the candidates before the raising one went
\* through the first loop, the raising one was reset, the others are untouched
LeftByRaise(candidates, existing_list, history) ==
    LET raising == Min(RaisingCandidates(candidates, existing_list))
        after_first == FirstLoop(candidates, existing_list, history)
    IN  [i \in DOMAIN candidates |->
            IF i < raising THEN after_first[i]
            ELSE IF i = raising THEN ResetAnnotation(candidates[i])
            ELSE candidates[i]]

---------------------------------------------------------------------------
(* ticket_submission_log.TicketSubmissionLog *)

SecondsPerDay == 86400

\* __init__(self, retention_days=365)
DefaultRetentionDays == 365

\* TicketSubmissionLog(TICKET_LOG_FILE, retention_days=30)
ConfiguredRetentionDays == 30

\* timedelta(days=retention_days), in seconds
RetentionSeconds(days) == days * SecondsPerDay

\* dict.get(key, default)
Get(dict, key, default) == IF key \in DOMAIN dict THEN dict[key] ELSE default

\* mutant of Expired: the entry stamped at the cutoff is deleted too
ExpiredAtCutoff(row, cutoff) == row.submitted_at <= cutoff

\* line 23: WHERE submitted_at < cutoff
Expired(row, cutoff) == row.submitted_at < cutoff

\* lines 20-24: the table after prune() at clock time utcnow
prune(rows, utcnow, days) ==
    LET cutoff == utcnow - RetentionSeconds(days)
        Kept(row) == ~Expired(row, cutoff)
    IN  SelectSeq(rows, Kept)

\* lines 31 and 60: the User row of user_email.strip().lower(), if any; a User is
\* identified by its e-mail, which is unique
FindUser(user_table, user_email) ==
    IF Lower(Strip(user_email)) \in user_table THEN Some(Lower(Strip(user_email)))
    ELSE None

\* the position of the first row with the latest submitted_at
Latest(rows) ==
    Min({i \in DOMAIN rows : \A j \in DOMAIN rows :
                                rows[j].submitted_at <= rows[i].submitted_at})

\* line 29: ORDER BY submitted_at DESC (rows of one timestamp in table order)
RECURSIVE OrderedDesc(_)
OrderedDesc(rows) ==
    IF rows = <<>> THEN <<>>
    ELSE LET i == Latest(rows)
         IN  <<rows[i]>> \o OrderedDesc(SubSeq(rows, 1, i - 1)
                                          \o SubSeq(rows, i + 1, Len(rows)))

\* lines 40-52: the dict built from a row
EntryOf(row, user_email) ==
    [submitted_at |-> Some(isoformat(row.submitted_at)),
     submitted_by |-> user_email,
     session_id |-> row.session_id,
     title |-> row.title,
     school |-> row.school,
     teacher |-> row.teacher,
     ticket_id |-> row.ticket_id,
     start_time |-> IF row.start_time = None THEN None
                    ELSE Some(isoformat(row.start_time[1])),
     length |-> row.length]

\* lines 28-53: the second transaction of get_entries (window_past_days is None),
\* on the table as it is then
select_entries(rows, user_table, user_email) ==
    LET user == IF user_email = None THEN None ELSE FindUser(user_table, user_email[1])
        Mine(row) == row.user_id = user[1]
        found == IF user_email = None \/ user_email[1] = <<>> THEN OrderedDesc(rows)
                 ELSE IF user = None THEN <<>>
                 ELSE OrderedDesc(SelectSeq(rows, Mine))
    IN  [i \in DOMAIN found |-> EntryOf(found[i], user_email)]

UnknownSchool ==
    <<"U", "n", "k", "n", "o", "w", "n", " ", "S", "c", "h", "o", "o", "l">>

UnknownTeacher ==
    <<"U", "n", "k", "n", "o", "w", "n", " ", "T", "e", "a", "c", "h", "e", "r">>

\* lines 64-83: the row built from one submission
RowOf(user_id, created_at, successful) ==
    [user_id |-> user_id,
     submitted_at |-> created_at,
     session_id |-> Get(successful, "session_id", None),
     title |-> Get(successful, "title", Some("Unknown Session")),
     school |-> Get(successful, "school", Some(UnknownSchool)),
     teacher |-> Get(successful, "teacher", Some(UnknownTeacher)),
     ticket_id |-> Get(successful, "ticket_id", Some("Unknown")),
     start_time |-> IF Get(successful, "start_time", None) = None THEN None
                    ELSE fromisoformat(Get(successful, "start_time", None)[1]),
     length |-> IF Get(successful, "length", Some(0)) = None THEN 0
                ELSE Get(successful, "length", Some(0))[1],
     status |-> "success"]

\* lines 55-85: the table after add_successful_submissions, when the database
\* commits
add_successful_submissions(rows, user_table, utcnow, user_email, successful_sessions) ==
    IF successful_sessions = <<>> THEN rows
    ELSE LET user == FindUser(user_table, user_email)
         IN  IF user = None THEN rows
             ELSE rows \o [i \in DOMAIN successful_sessions |->
                              RowOf(user[1], utcnow, successful_sessions[i])]

---------------------------------------------------------------------------
(* Inputs of the detector *)

\* Bounds of the detector's inputs
MaxCandidates == 2
MaxExisting == 2
MaxHistory == 2
MaxStart == 1
MaxLength == 2
MaxCalls == 2

Opt(S) == {None} \cup {Some(v) : v \in S}

SchoolA == Some(<<"A">>)
SchoolA2 == Some(<<"a", " ">>)      \* equals SchoolA only after strip().lower()
SchoolB == Some(<<"B">>)
TeacherT == Some(<<"T">>)
TeacherT2 == Some(<<" ", "t">>)     \* equals TeacherT only after strip().lower()
TeacherU == Some(<<"U">>)
NoTeacher == Some(<<>>)
Booked == Some(<<"B", "o", "o", "k", "e", "d", " ">>)
Held == Some(<<"h", "e", "l", "d">>)
Unparsable == [iso |-> FALSE, t |-> 0]

Starts == 0..MaxStart
Lengths == 1..MaxLength

\* the annotation a candidate may carry from an earlier call
StaleConflict ==
    [is_conflict |-> TRUE, conflict_details |-> <<"stale">>,
     conflict_type |-> "ghost_ticket",
     conflict_start_iso |-> Some(isoformat(0)), conflict_end_iso |-> Some(isoformat(1))]

Session(school, teacher, start_time, length, status, requested) ==
    [s_id |-> "", title |-> "", school |-> school, teacher |-> teacher,
     start_time |-> start_time, length |-> length, status |-> status,
     gn_ticket_requested |-> requested,
     is_conflict |-> FALSE, conflict_details |-> <<>>, conflict_type |-> "None",
     conflict_start_iso |-> None, conflict_end_iso |-> None]

\* candidates that differ in school and time only: Pass 3 has nothing to compare
PlainCandidates ==
    {Session(sc, NoTeacher, st, ln, Booked, FALSE) :
        sc \in {SchoolA, SchoolA2, SchoolB}, st \in Opt(Starts), ln \in Lengths}

\* candidates that differ in what Pass 2 reads
BookedCandidates ==
    {Session(sc, te, st, ln, sg[1], sg[2]) :
        sc \in {SchoolA, SchoolA2, SchoolB}, te \in {TeacherT, NoTeacher},
        st \in Opt(Starts), ln \in Lengths,
        sg \in {<<Booked, FALSE>>, <<Held, FALSE>>, <<Booked, TRUE>>}}

\* candidates that differ in what Pass 3 reads
TaughtCandidates ==
    {Session(sc, te, st, ln, Held, FALSE) :
        sc \in {SchoolA, SchoolB}, te \in {TeacherT, TeacherT2, TeacherU, NoTeacher},
        st \in Opt(Starts), ln \in Lengths}

\* the further candidates of a batch
Companions ==
    {Session(sc, NoTeacher, st, MaxLength, Booked, FALSE) :
        sc \in {SchoolA, SchoolB}, st \in Opt({0})}

ExistingSession(s_id, school, start_time, length, status, requested) ==
    [s_id |-> s_id, title |-> "", school |-> school, start_time |-> start_time,
     length |-> length, status |-> status, gn_ticket_requested |-> requested]

\* a single existing session: every test of Pass 1 can fail on its own
AnyExisting ==
    {ExistingSession(id, sc, st, 1, ss, gn) :
        id \in {"c1", ""}, sc \in {SchoolA, SchoolA2}, st \in Opt(Starts),
        ss \in {Booked, Held}, gn \in BOOLEAN}

\* several existing sessions: booked and requested, they differ in school and time
CommittedExisting ==
    {ExistingSession("", sc, Some(st), MaxLength, Booked, TRUE) :
        sc \in {SchoolA, SchoolA2}, st \in Starts}

HistoryEntry(session_id, school, start_time, length) ==
    [session_id |-> session_id, title |-> None, ticket_id |-> None, school |-> school,
     start_time |-> start_time, length |-> length]

\* a single history entry: every test of Pass 1b can fail on its own
AnyHistory ==
    {HistoryEntry(id, sc, st, 1) :
        id \in {Some("c1"), None}, sc \in {SchoolA, SchoolA2},
        st \in Opt({isoformat(t) : t \in Starts} \cup {Unparsable})}

\* several history entries: parsable, they differ in school and time
ParsableHistory ==
    {HistoryEntry(None, sc, Some(isoformat(st)), MaxLength) :
        sc \in {SchoolA, SchoolA2}, st \in Starts}

\* all lists of length n, the first `wide` items from First, the others from Rest
ListsOf(n, wide, First, Rest) ==
    {[i \in 1..n |-> IF i <= wide THEN f[i] ELSE r[i]] :
        f \in [1..(IF n < wide THEN n ELSE wide) -> First],
        r \in [(wide + 1)..n -> Rest]}

Batches(wide, First) ==
    UNION {ListsOf(n, wide, First, Companions) : n \in 1..MaxCandidates}

ExistingLists ==
    {<<>>} \cup ListsOf(1, 1, AnyExisting, {})
           \cup UNION {ListsOf(n, n, CommittedExisting, {}) : n \in 2..MaxExisting}

HistoryLists ==
    {<<>>} \cup ListsOf(1, 1, AnyHistory, {})
           \cup UNION {ListsOf(n, n, ParsableHistory, {}) : n \in 2..MaxHistory}

\* the position of an item names it: ids and titles not given by the input
Named(list, prefix) ==
    [i \in DOMAIN list |->
        [list[i] EXCEPT !.title = "Title " \o prefix \o ToString(i),
                        !.s_id = IF @ = "" THEN prefix \o ToString(i) ELSE @]]

NamedHistory(list) ==
    [i \in DOMAIN list |->
        [list[i] EXCEPT !.title = Some("Title h" \o ToString(i)),
                        !.ticket_id = Some("REQ" \o ToString(i)),
                        !.session_id = IF @ = None THEN Some("h" \o ToString(i)) ELSE @]]

\* the inputs: <<candidates, existing sessions, history entries>>
DetectorInputs ==
    (Batches(1, PlainCandidates) \X ExistingLists \X {<<>>})
    \cup (Batches(1, PlainCandidates) \X {<<>>} \X HistoryLists)
    \cup (ListsOf(1, 1, PlainCandidates, {})
            \X ListsOf(1, 1, CommittedExisting, {}) \X ListsOf(1, 1, ParsableHistory, {}))
    \cup (Batches(2, BookedCandidates) \X {<<>>} \X {<<>>})
    \cup (Batches(2, TaughtCandidates) \X {<<>>} \X {<<>>})

InitDetector ==
    \E input \in DetectorInputs, stale \in BOOLEAN :
        /\ candidate_sessions =
              [i \in DOMAIN input[1] |->
                  IF stale THEN Annotate(Named(input[1], "c")[i], StaleConflict)
                  ELSE Named(input[1], "c")[i]]
        /\ existing_sessions = Named(input[2], "e")
        /\ historical_ticket_entries = NamedHistory(input[3])
        /\ calls = <<>>

\* Batches of more candidates than two, booked and without ticket, whose
\* intervals can overlap in a chain: [0, 2), [1, 3), [2, 4)
MaxChain == 3

ChainedCandidates ==
    {Session(school, teacher, Some(start_time), length, Booked, FALSE) :
        school \in {SchoolA, SchoolB}, teacher \in {NoTeacher, TeacherT},
        start_time \in 0..(MaxChain - 1), length \in Lengths}

InitChained ==
    /\ candidate_sessions \in
          {Named(batch, "c") : batch \in [1..MaxChain -> ChainedCandidates]}
    /\ existing_sessions = <<>>
    /\ historical_ticket_entries = <<>>
    /\ calls = <<>>

\* Inputs the callers' loaders do not produce but the detector's contract admits:
\* a grouping field, a timestamp or a duration that is missing or malformed
NoSchool == {None, Some(<<>>)}

Durations ==
    {[length |-> n] : n \in {-1, 1}}
    \cup {[length_not_int |-> v] : v \in {None, Some(<<"x">>), Some(<<"2">>)}}

\* the session or entry x with the duration d
WithDuration(x, d) ==
    [f \in (DOMAIN x \ {"length"}) \cup DOMAIN d |->
        IF f \in DOMAIN d THEN d[f] ELSE x[f]]

MalformedCandidates ==
    {WithDuration(Session(school, teacher, start_time, 0, Booked, FALSE), d) :
        school \in NoSchool \cup {SchoolA},
        teacher \in {None, NoTeacher, TeacherT},
        start_time \in Opt({0}),
        d \in Durations}

\* well-formed but for the grouping fields, which may be missing
UngroupedCandidates ==
    {Session(school, teacher, Some(0), 1, Booked, FALSE) :
        school \in NoSchool \cup {SchoolA},
        teacher \in {None, NoTeacher, TeacherT}}

MalformedExisting ==
    {WithDuration(ExistingSession("", school, start_time, 0, status, TRUE), d) :
        school \in NoSchool \cup {SchoolA},
        start_time \in Opt({0}),
        status \in {None, Booked},
        d \in Durations}

\* existing sessions that pass every test of Pass 1 but that of the school
ReachedExisting ==
    {WithDuration(ExistingSession("", school, Some(0), 0, Booked, TRUE), d) :
        school \in {None, SchoolA},
        d \in Durations}

MalformedHistory ==
    {WithDuration(HistoryEntry(None, school, start_time, 0), d) :
        school \in NoSchool \cup {SchoolA},
        start_time \in {None, Some(Unparsable), Some(isoformat(0))},
        d \in Durations}

\* durations that are numbers but not positive, beside positive ones
ShortLengths == (0 - 1)..MaxLength

ShortCandidates ==
    {Session(SchoolA, teacher, Some(start_time), length, Booked, FALSE) :
        teacher \in {NoTeacher, TeacherT}, start_time \in Starts, length \in ShortLengths}

ShortExisting ==
    {ExistingSession("", SchoolA, Some(start_time), length, Booked, TRUE) :
        start_time \in Starts, length \in ShortLengths}

ShortHistory ==
    {HistoryEntry(None, SchoolA, Some(isoformat(start_time)), length) :
        start_time \in Starts, length \in ShortLengths}

\* the inputs: <<candidates, existing sessions, history entries>>
MalformedInputs ==
    (ListsOf(1, 1, MalformedCandidates, {}) \X {<<>>} \X {<<>>})
    \cup (ListsOf(2, 1, UngroupedCandidates, MalformedCandidates) \X {<<>>} \X {<<>>})
    \cup (ListsOf(1, 1, UngroupedCandidates, {})
            \X ListsOf(MaxExisting, MaxExisting, ReachedExisting, {}) \X {<<>>})
    \cup (ListsOf(1, 1, UngroupedCandidates, {})
            \X ListsOf(1, 1, MalformedExisting, {}) \X {<<>>})
    \cup (ListsOf(1, 1, UngroupedCandidates, {})
            \X {<<>>} \X ListsOf(1, 1, MalformedHistory, {}))
    \cup (ListsOf(2, 2, ShortCandidates, {}) \X {<<>>} \X {<<>>})
    \cup (ListsOf(1, 1, ShortCandidates, {}) \X ListsOf(1, 1, ShortExisting, {}) \X {<<>>})
    \cup (ListsOf(1, 1, ShortCandidates, {}) \X {<<>>} \X ListsOf(1, 1, ShortHistory, {}))

InitMalformed ==
    \E input \in MalformedInputs :
        /\ candidate_sessions = Named(input[1], "c")
        /\ existing_sessions = Named(input[2], "e")
        /\ historical_ticket_entries = NamedHistory(input[3])
        /\ calls = <<>>

\* The five annotation fields of every candidate of a batch
Annotations(candidates) ==
    [i \in DOMAIN candidates |->
        [is_conflict |-> candidates[i].is_conflict,
         conflict_details |-> candidates[i].conflict_details,
         conflict_type |-> candidates[i].conflict_type,
         conflict_start_iso |-> candidates[i].conflict_start_iso,
         conflict_end_iso |-> candidates[i].conflict_end_iso]]

\* One call of check_for_time_conflicts on the batch, which it annotates in place
Detect ==
    /\ Len(calls) < MaxCalls
    /\ LET raised == RaisingCandidates(candidate_sessions, existing_sessions) # {}
       IN  /\ candidate_sessions' =
                 IF raised
                 THEN LeftByRaise(candidate_sessions, existing_sessions,
                                  historical_ticket_entries)
                 ELSE check_for_time_conflicts(candidate_sessions, existing_sessions,
                                               historical_ticket_entries)
           /\ calls' = Append(calls,
                              [on_entry |-> candidate_sessions,
                               raised |-> raised,
                               returned |-> IF raised THEN <<>> ELSE candidate_sessions'])
    /\ UNCHANGED <<existing_sessions, historical_ticket_entries>>
    /\ UNCHANGED <<logVars, taskVars, webVars, progressVars>>

---------------------------------------------------------------------------
(* The log store, its clock and its callers *)

\* Bounds of the log store's runs
MaxOldRows == 2
MaxBatch == 2
MaxAppends == 1
MaxTicks == 1

UserU == <<"u">>
UserV == <<"v">>

\* the identities the callers pass: UserU's in another case with a space, and UserV's
Emails == {<<"U", " ">>, UserV}

\* gn_ticket.py lines 170-173: the record gn_ticket_handler appends to
\* successful_sessions for a session it submitted
successful_session(cn_session, ticket_id) ==
    [title |-> Some(cn_session.title), ticket_id |-> Some(ticket_id)]

\* a session the handler submitted, with the ticket REQ2
CompletedSession ==
    [Session(SchoolA, TeacherT, Some(0), 1, Booked, FALSE)
        EXCEPT !.s_id = "s2", !.title = "Title s2"]

\* a submission with every key, and one as gn_ticket_handler builds it
Submissions ==
    {[session_id |-> Some("s1"), title |-> Some("Title s1"), school |-> SchoolA,
      teacher |-> TeacherT, ticket_id |-> Some("REQ1"),
      start_time |-> Some(isoformat(0)), length |-> Some(1)],
     successful_session(CompletedSession, "REQ2")}

\* a row an earlier call appended for UserU
OldRow(submitted_at) ==
    RowOf(UserU, submitted_at,
          [session_id |-> Some("s0"), title |-> Some("Title s0"), school |-> SchoolA,
           teacher |-> TeacherT, ticket_id |-> Some("REQ0"),
           start_time |-> Some(isoformat(0)), length |-> Some(1)])

\* the clock starts at 0: the rows in the table are one second older than the
\* retention window, exactly as old, or one second younger
OldStamps(days) == {0 - RetentionSeconds(days) + d : d \in {0 - 1, 0, 1}}

Idle == [pc |-> "idle"]

InitLog ==
    /\ now = 0
    /\ retention_days \in {ConfiguredRetentionDays, DefaultRetentionDays}
    /\ users \in {{UserU}, {UserU, UserV}}
    /\ \E n \in 0..MaxOldRows :
          ticket_submissions \in
              {[i \in 1..n |-> OldRow(stamps[i])] :
                  stamps \in {f \in [1..n -> OldStamps(retention_days)] :
                                 \A i, j \in 1..n : i <= j => f[i] <= f[j]}}
    /\ query = Idle
    /\ read = None
    /\ appended = <<>>
    /\ prunes = <<>>

\* the log store as the detector's runs leave it
LogUnused ==
    /\ now = 0
    /\ retention_days = DefaultRetentionDays
    /\ users = {}
    /\ ticket_submissions = <<>>
    /\ query = Idle
    /\ read = None
    /\ appended = <<>>
    /\ prunes = <<>>

DetectorUnused ==
    /\ candidate_sessions = <<>>
    /\ existing_sessions = <<>>
    /\ historical_ticket_entries = <<>>
    /\ calls = <<>>

TasksUnused ==
    /\ airtable = <<>>
    /\ queue = <<>>
    /\ running = <<>>
    /\ scan_results = <<>>
    /\ outbox = <<>>
    /\ finished = None

WebUnused ==
    /\ flask_session = None
    /\ handed = None

\* the executions of prune since the table or the clock last changed otherwise, the
\* one at hand included (the last two of them)
Pruned(before, after) ==
    (IF prunes = <<>> THEN <<>> ELSE <<prunes[Len(prunes)]>>)
        \o <<[at |-> now, before |-> before, after |-> after]>>

\* a call of get_entries that is between its two transactions sees the step
Interrupted == IF query.pc = "idle" THEN query ELSE [query EXCEPT !.interrupted = TRUE]

\* the clock advances by a second, or by the retention window; it is followed for
\* MaxTicks seconds from the start and from the end of the window
Tick ==
    \E d \in {1, RetentionSeconds(retention_days)} :
        /\ now + d <= RetentionSeconds(retention_days) + MaxTicks
        /\ (now + d) % RetentionSeconds(retention_days) <= MaxTicks
        /\ now' = now + d
        /\ query' = Interrupted
        /\ read' = None
        /\ prunes' = <<>>
        /\ UNCHANGED <<retention_days, users, ticket_submissions, appended>>
        /\ UNCHANGED <<detectorVars, taskVars, webVars, progressVars>>

\* prune(), called on its own: one transaction
Prune ==
    /\ ticket_submissions' = prune(ticket_submissions, now, retention_days)
    /\ prunes' = Pruned(ticket_submissions, ticket_submissions')
    /\ read' = None
    /\ UNCHANGED <<now, retention_days, users, query, appended>>
    /\ UNCHANGED <<detectorVars, taskVars, webVars, progressVars>>

\* get_entries, line 27: self.prune()
GetEntriesPrune ==
    \E user_email \in Opt(Emails) :
        /\ query.pc = "idle"
        /\ ticket_submissions' = prune(ticket_submissions, now, retention_days)
        /\ prunes' = Pruned(ticket_submissions, ticket_submissions')
        /\ query' = [pc |-> "pruned", user_email |-> user_email, interrupted |-> FALSE]
        /\ read' = None
        /\ UNCHANGED <<now, retention_days, users, appended>>
        /\ UNCHANGED <<detectorVars, taskVars, webVars, progressVars>>

\* get_entries, lines 28-53: the select, in a transaction of its own, and the return
GetEntriesSelect ==
    /\ query.pc = "pruned"
    /\ read' = Some([user_email |-> query.user_email,
                     at |-> now,
                     interrupted |-> query.interrupted,
                     failed |-> "no",
                     outcome |-> "returned",
                     entries |-> select_entries(ticket_submissions, users,
                                                query.user_email)])
    /\ query' = Idle
    /\ UNCHANGED <<now, retention_days, users, ticket_submissions, appended, prunes>>
    /\ UNCHANGED <<detectorVars, taskVars, webVars, progressVars>>

\* get_entries when the database fails in prune (lines 22-24): nothing is deleted,
\* no handler is in the way (lines 26-27), the exception leaves get_entries
GetEntriesPruneFails ==
    \E user_email \in Opt(Emails) :
        /\ query.pc = "idle"
        /\ read' = Some([user_email |-> user_email,
                         at |-> now,
                         interrupted |-> FALSE,
                         failed |-> "prune",
                         outcome |-> "raised",
                         entries |-> <<>>])
        /\ UNCHANGED <<now, retention_days, users, ticket_submissions, query,
                       appended, prunes>>
        /\ UNCHANGED <<detectorVars, taskVars, webVars, progressVars>>

\* get_entries when the database fails in the select (lines 28-38): the exception
\* leaves get_entries
GetEntriesSelectFails ==
    /\ query.pc = "pruned"
    /\ read' = Some([user_email |-> query.user_email,
                     at |-> now,
                     interrupted |-> query.interrupted,
                     failed |-> "select",
                     outcome |-> "raised",
                     entries |-> <<>>])
    /\ query' = Idle
    /\ UNCHANGED <<now, retention_days, users, ticket_submissions, appended, prunes>>
    /\ UNCHANGED <<detectorVars, taskVars, webVars, progressVars>>

\* whether the table holds a row of the user that prune would keep now
HasLiveRows(user_email) ==
    \E i \in DOMAIN ticket_submissions :
        /\ ticket_submissions[i].user_id = Lower(Strip(user_email))
        /\ ~Expired(ticket_submissions[i], now - RetentionSeconds(retention_days))

\* what the caller of add_successful_submissions and the table show of the call
Appended(user_email, successful_sessions, outcome, after) ==
    [user_email |-> user_email,
     successful_sessions |-> successful_sessions,
     at |-> now,
     outcome |-> outcome,
     persisted |-> SubSeq(after, Len(ticket_submissions) + 1, Len(after)),
     had_live_rows |-> HasLiveRows(user_email)]

\* add_successful_submissions: one transaction that commits, and the return
AddSuccessfulSubmissions ==
    \E user_email \in Emails, n \in 0..MaxBatch :
        \E successful_sessions \in [1..n -> Submissions] :
            /\ Len(appended) < MaxAppends
            /\ ticket_submissions' =
                  add_successful_submissions(ticket_submissions, users, now,
                                             user_email, successful_sessions)
            /\ appended' = Append(appended,
                                  Appended(user_email, successful_sessions, "returned",
                                           ticket_submissions'))
            /\ query' = Interrupted
            /\ read' = None
            /\ prunes' = <<>>
            /\ UNCHANGED <<now, retention_days, users>>
            /\ UNCHANGED <<detectorVars, taskVars, webVars, progressVars>>

\* add_successful_submissions when the database fails (lines 60, 85): the exception
\* leaves the function and nothing is committed
AddSuccessfulSubmissionsFails ==
    \E user_email \in Emails, n \in 1..MaxBatch :
        \E successful_sessions \in [1..n -> Submissions] :
            /\ Len(appended) < MaxAppends
            /\ appended' = Append(appended,
                                  Appended(user_email, successful_sessions, "raised",
                                           ticket_submissions))
            /\ query' = Interrupted
            /\ read' = None
            /\ prunes' = <<>>
            /\ UNCHANGED <<now, retention_days, users, ticket_submissions>>
            /\ UNCHANGED <<detectorVars, taskVars, webVars, progressVars>>

NextLog ==
    \/ Tick
    \/ Prune
    \/ GetEntriesPrune
    \/ GetEntriesSelect
    \/ GetEntriesPruneFails
    \/ GetEntriesSelectFails
    \/ AddSuccessfulSubmissions
    \/ AddSuccessfulSubmissionsFails

---------------------------------------------------------------------------
(* The scheduled tasks (tasks.py) *)

\* Bounds of the task queue
MaxWorkers == 2
MaxHours == 2
MaxFetched == 2

\* the beat schedule crontab(minute=0): once an hour
SecondsPerHour == 3600

Workers == 1..MaxWorkers

Task(name, user_email, session_ids) ==
    [name |-> name, user_email |-> user_email, session_ids |-> session_ids]

\* lines 35-47
_session_to_dict(session) ==
    [session_id |-> session.s_id,
     title |-> session.title,
     school |-> session.school,
     teacher |-> session.teacher,
     start_time |-> IF session.start_time = None THEN None
                    ELSE Some(isoformat(session.start_time[1])),
     length |-> session.length,
     conflict_details |-> session.conflict_details,
     conflict_type |-> session.conflict_type,
     conflict_start_iso |-> session.conflict_start_iso,
     conflict_end_iso |-> session.conflict_end_iso]

\* [s.s_id for s in sessions]
Ids(sessions) == [i \in DOMAIN sessions |-> sessions[i].s_id]

\* line 77 and main.py line 543
school_names(sessions) ==
    {sessions[i].school : i \in DOMAIN sessions} \ {Some(UnknownSchool)}

IsConflict(session) == session.is_conflict

\* lines 108-113, the variant that books whatever detect found
enqueued_despite_conflicts(user_email, sessions, conflict_payload) ==
    IF sessions # <<>> THEN <<Task("book_sessions", user_email, Ids(sessions))>>
    ELSE <<>>

\* lines 108-113: the tasks scan_user enqueues
enqueued_by_scan(user_email, sessions, conflict_payload) ==
    IF conflict_payload # <<>> THEN <<>>
    ELSE IF sessions # <<>> THEN <<Task("book_sessions", user_email, Ids(sessions))>>
    ELSE <<>>

\* what a task did: how it ended, the candidates it held last, and the rows,
\* e-mails and tasks it added
Outcome(task, outcome, sessions, rows, scans, mails, tasks) ==
    [task |-> task, outcome |-> outcome, candidates |-> sessions, rows |-> rows,
     persisted |-> scans, notified |-> mails, enqueued |-> tasks]

\* lines 59-113. get_all_sessions_for_schools (airtable_integration.py line 276)
\* takes school_names and status_filters only: the call of lines 79-84, made when
\* school_names is not empty, raises TypeError.
scan_user(task) ==
    LET user_email == task.user_email
        fetched == airtable[user_email]
        pruned == prune(ticket_submissions, now, retention_days)
        historical_entries == select_entries(pruned, users, Some(user_email))
        detected == check_for_time_conflicts(fetched, <<>>, historical_entries)
        conflicts == SelectSeq(detected, IsConflict)
        conflict_payload == [i \in DOMAIN conflicts |-> _session_to_dict(conflicts[i])]
        scan == [user_id |-> Lower(Strip(user_email)),
                 scanned_at |-> now,
                 conflicts_json |-> conflict_payload,
                 candidate_ids |-> Ids(fetched),
                 summary |-> [candidates |-> Len(fetched),
                              conflicts |-> Len(conflict_payload)]]
        mails == IF conflict_payload = <<>> THEN <<>>
                 ELSE <<[to |-> user_email, conflicts |-> conflict_payload]>>
    IN  IF FindUser(users, user_email) = None
        THEN Outcome(task, "returned", <<>>, ticket_submissions, <<>>, <<>>, <<>>)
        ELSE IF fetched = <<>>
        THEN Outcome(task, "returned", fetched, ticket_submissions,
                     <<[scan EXCEPT !.conflicts_json = <<>>,
                                    !.summary = [candidates |-> 0, conflicts |-> 0]]>>,
                     <<>>, <<>>)
        ELSE IF school_names(fetched) # {}
        THEN Outcome(task, "raised", fetched, ticket_submissions, <<>>, <<>>, <<>>)
        ELSE Outcome(task, "returned", detected, pruned, <<scan>>, mails,
                     enqueued_by_scan(user_email, detected, conflict_payload))

\* lines 116-156. gn_ticket_handler (gn_ticket.py lines 41-42) takes no
\* buffer_before or buffer_after: the call of lines 141-154 raises TypeError, and
\* line 156 is not reached.
book_sessions(task) ==
    LET fetched == airtable[task.user_email]
        Selected(session) == \E i \in DOMAIN task.session_ids :
                                session.s_id = task.session_ids[i]
        send_to_gn == SelectSeq(fetched, Selected)
    IN  IF FindUser(users, task.user_email) = None \/ send_to_gn = <<>>
        THEN Outcome(task, "returned", send_to_gn, ticket_submissions, <<>>, <<>>, <<>>)
        ELSE Outcome(task, "raised", send_to_gn, ticket_submissions, <<>>, <<>>, <<>>)

\* lines 49-56: one scan_user per user with the automatic scan enabled
run_hourly_scan(task) ==
    Outcome(task, "returned", <<>>, ticket_submissions, <<>>, <<>>,
            IF UserV \in users
            THEN <<Task("scan_user", UserU, <<>>), Task("scan_user", UserV, <<>>)>>
            ELSE <<Task("scan_user", UserU, <<>>)>>)

\* the sessions Airtable returns as Booked and without ticket: every field set
\* (AirtableSession.__init__), the school possibly the default
FetchedSessions ==
    {Session(school, TeacherT, Some(start_time), 1, Booked, FALSE) :
        school \in {Some(UnknownSchool), SchoolA}, start_time \in 0..1}

FetchedBatches ==
    UNION {{Named(batch, "u") : batch \in [1..n -> FetchedSessions]} : n \in 0..MaxFetched}

FetchedNothing == <<>>

FetchedUnnamedSchool ==
    Named(<<Session(Some(UnknownSchool), TeacherT, Some(0), 1, Booked, FALSE)>>, "v")

InitTasks ==
    /\ now = 0
    /\ retention_days = DefaultRetentionDays
    /\ users \in {{UserU}, {UserU, UserV}}
    /\ ticket_submissions \in
          {<<>>, <<RowOf(UserU, 0 - 1, successful_session(CompletedSession, "REQ2"))>>}
    /\ query = Idle
    /\ read = None
    /\ appended = <<>>
    /\ prunes = <<>>
    /\ \E of_u \in FetchedBatches, of_v \in {FetchedNothing, FetchedUnnamedSchool} :
          airtable = [user_email \in {UserU, UserV} |->
                         IF user_email = UserU THEN of_u ELSE of_v]
    /\ queue = <<>>
    /\ running = [w \in Workers |-> None]
    /\ scan_results = <<>>
    /\ outbox = <<>>
    /\ finished = None

\* celery beat, on the hour: the broker gets one run_hourly_scan
Beat ==
    /\ now < MaxHours * SecondsPerHour
    /\ now' = now + SecondsPerHour
    /\ queue' = Append(queue, Task("run_hourly_scan", <<>>, <<>>))
    /\ finished' = None
    /\ UNCHANGED <<retention_days, users, ticket_submissions, query, read, appended, prunes,
                   airtable, running, scan_results, outbox>>
    /\ UNCHANGED <<detectorVars, webVars, progressVars>>

\* an idle worker takes the task at the head of the queue
StartTask ==
    \E w \in Workers :
        /\ running[w] = None
        /\ queue # <<>>
        /\ running' = [running EXCEPT ![w] = Some(Head(queue))]
        /\ queue' = Tail(queue)
        /\ finished' = None
        /\ UNCHANGED <<now, retention_days, users, ticket_submissions, query, read, appended,
                       prunes, airtable, scan_results, outbox>>
        /\ UNCHANGED <<detectorVars, webVars, progressVars>>

\* the task of worker w ends, with the outcome done
Finish(w, done) ==
    /\ running' = [running EXCEPT ![w] = None]
    /\ ticket_submissions' = done.rows
    /\ scan_results' = scan_results \o done.persisted
    /\ outbox' = outbox \o done.notified
    /\ queue' = queue \o done.enqueued
    /\ finished' = Some(done)
    /\ UNCHANGED <<now, retention_days, users, query, read, appended, prunes, airtable>>
    /\ UNCHANGED <<detectorVars, webVars, progressVars>>

Running(w, name) == running[w] # None /\ running[w][1].name = name

RunHourlyScan ==
    \E w \in Workers :
        Running(w, "run_hourly_scan") /\ Finish(w, run_hourly_scan(running[w][1]))

ScanUser ==
    \E w \in Workers :
        Running(w, "scan_user") /\ Finish(w, scan_user(running[w][1]))

BookSessions ==
    \E w \in Workers :
        Running(w, "book_sessions") /\ Finish(w, book_sessions(running[w][1]))

NextTasks == Beat \/ StartTask \/ RunHourlyScan \/ ScanUser \/ BookSessions

---------------------------------------------------------------------------
(* The progress store (main.py) *)

\* Bounds of the progress store
MaxThreads == 2
MaxSets == 52

\* line 191: deque(maxlen=50)
Maxlen == 50

ProgressThreads == 1..MaxThreads

\* the progress session id gn_booking_<n> (line 586) is the number n
ProgressIds == {0, 1}

\* lines 194-201: timestamp is the time of day that strftime renders
ProgressEntry(seq, message, step, total_steps, status) ==
    [seq |-> seq, timestamp |-> now % SecondsPerDay, message |-> message,
     step |-> step, total_steps |-> total_steps, status |-> status]

\* lines 109-111: both dicts empty (no id has a value), the lock free, no thread
\* inside one of the three functions
ProgressUnused ==
    /\ progress_store = [session_id \in ProgressIds |-> None]
    /\ progress_counters = [session_id \in ProgressIds |-> None]
    /\ progress_lock = None
    /\ threads = [t \in ProgressThreads |-> None]
    /\ set_calls = [session_id \in ProgressIds |-> 0]
    /\ progress = None

\* a store whose functions do not take the lock
EnterUnlocked(lock) == TRUE

\* `with progress_lock:` (lines 189, 205, 210) blocks while a thread holds the lock
MayEnter(lock) == lock = None

\* a thread calls set_progress, get_progress or clear_progress for some id and
\* gets the lock: it stands before the first line of the body
Enter ==
    \E t \in ProgressThreads, session_id \in ProgressIds,
       call \in {<<"set_progress", 190>>, <<"get_progress", 206>>, <<"clear_progress", 211>>} :
        /\ threads[t] = None
        /\ MayEnter(progress_lock)
        /\ call[1] = "set_progress" => set_calls[0] + set_calls[1] < MaxSets
        /\ progress_lock' = Some(t)
        /\ threads' = [threads EXCEPT ![t] = Some([op |-> call[1],
                                                   session_id |-> session_id,
                                                   line |-> call[2]])]
        /\ progress' = None
        /\ UNCHANGED <<progress_store, progress_counters, set_calls>>
        /\ UNCHANGED <<detectorVars, logVars, taskVars, webVars>>

\* lines 187-201, a line at a time: 190-192 create the deque and the counter of a
\* new id, 193 increments the counter, 194-201 append the entry, the deque
\* dropping its oldest entry when it holds maxlen, and leave the with block. A
\* missing key at line 193 or 194 raises KeyError, which leaves the block too.
set_progress ==
    \E t \in ProgressThreads :
        /\ threads[t] # None
        /\ threads[t][1].op = "set_progress"
        /\ LET session_id == threads[t][1].session_id
               line == threads[t][1].line
               deque == progress_store[session_id][1]
               entry == ProgressEntry(progress_counters[session_id][1],
                                      "message", None, None, "running")
               appended_to == IF Len(deque) = Maxlen THEN Append(Tail(deque), entry)
                              ELSE Append(deque, entry)
           IN  IF line = 190
               THEN /\ progress_store' =
                          IF progress_store[session_id] = None
                          THEN [progress_store EXCEPT ![session_id] = Some(<<>>)]
                          ELSE progress_store
                    /\ progress_counters' =
                          IF progress_store[session_id] = None
                          THEN [progress_counters EXCEPT ![session_id] = Some(0)]
                          ELSE progress_counters
                    /\ threads' = [threads EXCEPT ![t] =
                                      Some([threads[t][1] EXCEPT !.line = 193])]
                    /\ UNCHANGED <<progress_lock, set_calls>>
               ELSE IF line = 193 /\ progress_counters[session_id] # None
               THEN /\ progress_counters' =
                          [progress_counters EXCEPT ![session_id] =
                              Some(progress_counters[session_id][1] + 1)]
                    /\ threads' = [threads EXCEPT ![t] =
                                      Some([threads[t][1] EXCEPT !.line = 194])]
                    /\ UNCHANGED <<progress_store, progress_lock, set_calls>>
               ELSE IF line = 194 /\ progress_store[session_id] # None
                                  /\ progress_counters[session_id] # None
               THEN /\ progress_store' =
                          [progress_store EXCEPT ![session_id] = Some(appended_to)]
                    /\ set_calls' = [set_calls EXCEPT ![session_id] = @ + 1]
                    /\ threads' = [threads EXCEPT ![t] = None]
                    /\ progress_lock' = None
                    /\ UNCHANGED progress_counters
               ELSE /\ threads' = [threads EXCEPT ![t] = None]
                    /\ progress_lock' = None
                    /\ UNCHANGED <<progress_store, progress_counters, set_calls>>
        /\ progress' = None
        /\ UNCHANGED <<detectorVars, logVars, taskVars, webVars>>

\* lines 204-206: a copy of the deque of the id, or of an empty one
get_progress ==
    \E t \in ProgressThreads :
        /\ threads[t] # None
        /\ threads[t][1].op = "get_progress"
        /\ LET session_id == threads[t][1].session_id
           IN  progress' = Some([session_id |-> session_id,
                                 entries |-> IF progress_store[session_id] = None THEN <<>>
                                             ELSE progress_store[session_id][1],
                                 set_calls |-> set_calls[session_id]])
        /\ threads' = [threads EXCEPT ![t] = None]
        /\ progress_lock' = None
        /\ UNCHANGED <<progress_store, progress_counters, set_calls>>
        /\ UNCHANGED <<detectorVars, logVars, taskVars, webVars>>

\* lines 209-212, a line at a time: 211 removes the deque of the id, 212 its counter
clear_progress ==
    \E t \in ProgressThreads :
        /\ threads[t] # None
        /\ threads[t][1].op = "clear_progress"
        /\ LET session_id == threads[t][1].session_id
           IN  IF threads[t][1].line = 211
               THEN /\ progress_store' = [progress_store EXCEPT ![session_id] = None]
                    /\ threads' = [threads EXCEPT ![t] =
                                      Some([threads[t][1] EXCEPT !.line = 212])]
                    /\ UNCHANGED <<progress_counters, progress_lock, set_calls>>
               ELSE /\ progress_counters' = [progress_counters EXCEPT ![session_id] = None]
                    /\ set_calls' = [set_calls EXCEPT ![session_id] = 0]
                    /\ threads' = [threads EXCEPT ![t] = None]
                    /\ progress_lock' = None
                    /\ UNCHANGED progress_store
        /\ progress' = None
        /\ UNCHANGED <<detectorVars, logVars, taskVars, webVars>>

NextProgress == Enter \/ set_progress \/ get_progress \/ clear_progress

---------------------------------------------------------------------------
(* The interactive booking path (main.py) *)

\* Bound of the fields of a posted form
MaxFormFields == 2

\* lines 797-805: the ids paired by position with a 'y'
get_enabled_sessions(form) ==
    {form.airtable_id[i] :
        i \in {j \in DOMAIN form.airtable_id :
                  j <= Len(form.book_me) /\ form.book_me[j] = "y"}}

\* request.form: the lists airtable_id and book_me, as any client may post them
Forms ==
    UNION {[airtable_id : [1..n -> {"u1", "u2"}], book_me : [1..m -> {"y", "n"}]] :
              n \in 0..MaxFormFields, m \in 0..MaxFormFields}

InitWeb ==
    /\ now = 0
    /\ retention_days = ConfiguredRetentionDays
    /\ users = {UserU}
    /\ ticket_submissions \in {<<>>, <<OldRow(0 - 1)>>}
    /\ query = Idle
    /\ read = None
    /\ appended = <<>>
    /\ prunes = <<>>
    /\ airtable \in [{UserU} -> FetchedBatches]
    /\ existing_sessions \in
          {<<>>} \cup {Named(list, "e") : list \in ListsOf(1, 1, CommittedExisting, {})}
    /\ candidate_sessions = <<>>
    /\ historical_ticket_entries = <<>>
    /\ calls = <<>>
    /\ queue = <<>>
    /\ running = <<>>
    /\ scan_results = <<>>
    /\ outbox = <<>>
    /\ finished = None
    /\ flask_session = None
    /\ handed = None
    /\ ProgressUnused

\* lines 536-575: the page of the signed-in user UserU loads the candidates,
\* annotates them and keeps them in the session
gn_ticket_page ==
    LET fetched == airtable[UserU]
        OfSchools(session) == session.school \in school_names(fetched)
        pruned == prune(ticket_submissions, now, retention_days)
        historical_entries == select_entries(pruned, users, Some(UserU))
    IN  /\ flask_session' =
              Some(IF school_names(fetched) = {} THEN fetched
                   ELSE check_for_time_conflicts(fetched,
                                                 SelectSeq(existing_sessions, OfSchools),
                                                 historical_entries))
        /\ ticket_submissions' = pruned
        /\ handed' = None
        /\ UNCHANGED <<now, retention_days, users, query, read, appended, prunes>>
        /\ UNCHANGED <<detectorVars, taskVars, progressVars>>

\* lines 578-630: the posted form selects the sessions handed to gn_ticket_handler.
\* The handler takes no buffer_before or buffer_after (gn_ticket.py lines 41-42):
\* the call of lines 608-621 raises TypeError, which line 623 catches. The progress
\* of the booking is cleared and started (lines 586-588) and gets the error entry
\* (line 624).
do_gn_ticket ==
    \E form \in Forms :
        LET Enabled(session) == session.s_id \in get_enabled_sessions(form)
            send_to_gn == SelectSeq(IF flask_session = None THEN <<>> ELSE flask_session[1],
                                    Enabled)
            progress_session_id == now
            started == ProgressEntry(1, <<"Starting booking process for", Len(send_to_gn),
                                          "sessions...">>, None, None, "running")
            failed == ProgressEntry(2, "Critical error during booking", None, None, "error")
        IN  /\ handed' = Some([form |-> form, send_to_gn |-> send_to_gn,
                                outcome |-> "raised"])
            /\ progress_store' =
                  [progress_store EXCEPT ![progress_session_id] = Some(<<started, failed>>)]
            /\ progress_counters' =
                  [progress_counters EXCEPT ![progress_session_id] = Some(2)]
            /\ set_calls' = [set_calls EXCEPT ![progress_session_id] = 2]
            /\ UNCHANGED <<flask_session, progress_lock, threads, progress>>
            /\ UNCHANGED <<detectorVars, logVars, taskVars>>

NextWeb == gn_ticket_page \/ do_gn_ticket

---------------------------------------------------------------------------
(* Specifications *)

\* a batch handed to the detector; the log store is not used
Init == InitDetector /\ LogUnused /\ TasksUnused /\ WebUnused /\ ProgressUnused

\* the detector called on a batch, and called again
Spec == Init /\ [][Detect]_vars

\* a log store with the rows of earlier calls; the detector is not used
InitStore == InitLog /\ DetectorUnused /\ TasksUnused /\ WebUnused /\ ProgressUnused

\* the detector on every input of its contract
InitContract == InitMalformed /\ LogUnused /\ TasksUnused /\ WebUnused /\ ProgressUnused
ContractSpec == InitContract /\ [][Detect]_vars

\* the detector on batches of overlapping candidates
InitChain == InitChained /\ LogUnused /\ TasksUnused /\ WebUnused /\ ProgressUnused
ChainSpec == InitChain /\ [][Detect]_vars

\* the scheduled scan and booking tasks
InitQueue == InitTasks /\ DetectorUnused /\ WebUnused /\ ProgressUnused
TaskSpec == InitQueue /\ [][NextTasks]_vars

\* the page of the candidates and the booking request
WebSpec == InitWeb /\ [][NextWeb]_vars

\* threads calling the three functions of the progress store
InitProgress ==
    ProgressUnused /\ DetectorUnused /\ LogUnused /\ TasksUnused /\ WebUnused
ProgressSpec == InitProgress /\ [][NextProgress]_vars

\* the log store under every interleaving of its operations and of the clock
LogSpec == InitStore /\ [][NextLog]_vars

---------------------------------------------------------------------------
(* Properties of the detector *)

StartOf(session) == session.start_time[1]

\* a.start < b.end and b.start < a.end, on intervals [start, start + length)
StrictlyOverlap(a_start, a_length, b_start, b_length) ==
    a_start < b_start + b_length /\ b_start < a_start + a_length

WindowOf(candidate) == <<candidate.conflict_start_iso, candidate.conflict_end_iso>>

IsoInterval(start, length) == <<Some(isoformat(start)), Some(isoformat(start + length))>>

Names(candidate, text) == \E n \in DOMAIN candidate.conflict_details :
                              candidate.conflict_details[n] = text

FlaggedInPass1(candidate) ==
    /\ candidate.is_conflict
    /\ candidate.conflict_type = "time"
    /\ candidate.conflict_details # <<>>
    /\ candidate.conflict_details[1] = "Conflicts with previously booked session '"

\* the existing sessions the claim C1 lets flag the candidate, as positions
QualifyingExisting(candidate, batch) ==
    {n \in DOMAIN existing_sessions :
        LET e == existing_sessions[n]
        IN  /\ \A m \in DOMAIN batch : batch[m].s_id # e.s_id
            /\ e.school = candidate.school
            /\ Lower(Strip(OrEmpty(e.status))) = <<"b", "o", "o", "k", "e", "d">>
            /\ e.gn_ticket_requested
            /\ e.start_time # None
            /\ StrictlyOverlap(StartOf(candidate), candidate.length,
                               StartOf(e), e.length)}

\* C1: a candidate with a start time is flagged by Pass 1 exactly when some existing
\* session outside the batch has its very school, is booked (trimmed, lower-cased),
\* has its ticket requested, has a start time and strictly overlaps it; the conflict
\* window is then the interval of the first such existing session.
C1_Pass1FlagsExactly ==
    \A k \in DOMAIN calls :
        LET batch == calls[k].returned
        IN  \A i \in DOMAIN batch :
                LET c == batch[i]
                    q == QualifyingExisting(c, batch)
                IN  c.start_time # None =>
                      /\ FlaggedInPass1(c) <=> q # {}
                      /\ q # {} =>
                            LET e == existing_sessions[Min(q)]
                            IN  /\ WindowOf(c) = IsoInterval(StartOf(e), e.length)
                                /\ Names(c, e.title)

\* C1 witness: a candidate flagged in Pass 1 with two qualifying existing sessions of
\* different intervals
C1_Witness ==
    \E k \in DOMAIN calls :
        LET batch == calls[k].returned
        IN  \E i \in DOMAIN batch :
                /\ batch[i].start_time # None
                /\ FlaggedInPass1(batch[i])
                /\ \E n \in QualifyingExisting(batch[i], batch) :
                      LET first == existing_sessions[Min(QualifyingExisting(batch[i], batch))]
                      IN  StartOf(existing_sessions[n]) # StartOf(first)

\* the history entries the claim C2 lets flag the candidate, as positions
QualifyingHistory(candidate) ==
    {n \in DOMAIN historical_ticket_entries :
        LET h == historical_ticket_entries[n]
        IN  /\ h.session_id # Some(candidate.s_id)
            /\ Lower(Strip(OrEmpty(h.school))) = Lower(Strip(OrEmpty(candidate.school)))
            /\ h.start_time # None
            /\ h.start_time[1].iso
            /\ StrictlyOverlap(StartOf(candidate), candidate.length,
                               h.start_time[1].t, h.length)}

\* C2: a candidate with a start time that Pass 1 did not flag is flagged ghost_ticket
\* exactly when some history entry of another session id and of its school (trimmed,
\* lower-cased) has a parsable start time and strictly overlaps it; the window is then
\* the interval of the first such entry and the detail holds that entry's ticket id.
C2_Pass1bFlagsExactly ==
    \A k \in DOMAIN calls :
        LET batch == calls[k].returned
        IN  \A i \in DOMAIN batch :
                LET c == batch[i]
                    q == QualifyingHistory(c)
                IN  (c.start_time # None /\ ~FlaggedInPass1(c)) =>
                      /\ (c.is_conflict /\ c.conflict_type = "ghost_ticket") <=> q # {}
                      /\ q # {} =>
                            LET h == historical_ticket_entries[Min(q)]
                            IN  /\ WindowOf(c) = IsoInterval(h.start_time[1].t, h.length)
                                /\ h.ticket_id # None
                                /\ Names(c, h.ticket_id[1])

\* C2 witness: a ghost_ticket flag from the first of two qualifying entries of
\* different intervals, the school matching only after strip().lower()
C2_Witness ==
    \E k \in DOMAIN calls :
        LET batch == calls[k].returned
        IN  \E i \in DOMAIN batch :
                /\ batch[i].start_time # None
                /\ batch[i].conflict_type = "ghost_ticket"
                /\ \E n \in QualifyingHistory(batch[i]) :
                      LET first == historical_ticket_entries[Min(QualifyingHistory(batch[i]))]
                      IN  /\ historical_ticket_entries[n].start_time # first.start_time
                          /\ first.school # batch[i].school

\* the case of C3: two candidates with start times, booked, not yet requested, of the
\* same school, strictly overlapping, and nothing in existing or history qualifying
BookedPair(batch) ==
    /\ Len(batch) = 2
    /\ \A i \in 1..2 :
          /\ batch[i].start_time # None
          /\ Lower(Strip(OrEmpty(batch[i].status))) = <<"b", "o", "o", "k", "e", "d">>
          /\ ~batch[i].gn_ticket_requested
          /\ QualifyingExisting(batch[i], batch) = {}
          /\ QualifyingHistory(batch[i]) = {}
    /\ batch[1].school = batch[2].school
    /\ StrictlyOverlap(StartOf(batch[1]), batch[1].length,
                       StartOf(batch[2]), batch[2].length)

\* C3: in a batch of exactly two overlapping booked, not yet requested candidates of
\* one school, with no qualifying existing session or history entry, both are flagged
\* `time`, each detail names the other's title, each window is the other's interval.
C3_BookedPairFlagsBoth ==
    \A k \in DOMAIN calls :
        LET batch == calls[k].returned
        IN  BookedPair(batch) =>
              \A i \in 1..2 :
                  LET c == batch[i]
                      o == batch[3 - i]
                  IN  /\ c.is_conflict
                      /\ c.conflict_type = "time"
                      /\ Names(c, o.title)
                      /\ WindowOf(c) = IsoInterval(StartOf(o), o.length)

\* C3 witness: such a pair, of different intervals, after a call
C3_Witness ==
    \E k \in DOMAIN calls :
        /\ BookedPair(calls[k].returned)
        /\ StartOf(calls[k].returned[1]) # StartOf(calls[k].returned[2])
        /\ calls[k].returned[1].length # calls[k].returned[2].length

\* the batch as the session source builds it: no conflict recorded
Fresh(batch) == [i \in DOMAIN batch |-> Annotate(batch[i], NoConflict)]

\* C4: a second call on the same candidates, existing sessions and history returns
\* the annotations of the first, and what the candidates carry on entry of a call
\* never changes its result.
C4_RescanIdempotent ==
    \A k \in DOMAIN calls :
        /\ k > 1 => Annotations(calls[k].returned) = Annotations(calls[k - 1].returned)
        /\ Annotations(calls[k].returned) =
              Annotations(check_for_time_conflicts(Fresh(calls[k].on_entry),
                                                   existing_sessions,
                                                   historical_ticket_entries))

\* C4 witness: a second call, on a batch whose first call cleared a flag carried on
\* entry and set another
C4_Witness ==
    /\ Len(calls) = 2
    /\ \E i \in DOMAIN calls[1].on_entry :
          calls[1].on_entry[i].is_conflict /\ ~calls[1].returned[i].is_conflict
    /\ \E j \in DOMAIN calls[2].on_entry :
          /\ calls[2].on_entry[j].is_conflict
          /\ calls[2].on_entry[j].conflict_type = "time"

\* the fields the detector only reads
Identity(session) ==
    <<session.s_id, session.title, session.school, session.teacher,
      session.start_time, session.length, session.status, session.gn_ticket_requested>>

\* a session of the same id and title that shares no school, teacher or status
\* with anything
Elsewhere(session) ==
    [session EXCEPT !.school = None, !.teacher = None, !.status = None]

\* C5: a candidate with no start time is returned, in its place, with the annotation
\* 'no conflict'; no other candidate is flagged against it, and the other
\* candidates' annotations are what they would be if it shared no school, teacher
\* or status with anything.
C5_NoStartTimeNeverFlagged ==
    \A k \in DOMAIN calls :
        LET entry == calls[k].on_entry
            batch == calls[k].returned
        IN  /\ Len(batch) = Len(entry)
            /\ \A i \in DOMAIN entry :
                  entry[i].start_time = None =>
                    /\ Identity(batch[i]) = Identity(entry[i])
                    /\ Annotations(batch)[i] = NoConflict
                    /\ \A j \in DOMAIN batch \ {i} : ~Names(batch[j], batch[i].title)
                    /\ LET moved == check_for_time_conflicts(
                                       [entry EXCEPT ![i] = Elsewhere(entry[i])],
                                       existing_sessions, historical_ticket_entries)
                       IN  \A j \in DOMAIN batch \ {i} :
                               Annotations(moved)[j] = Annotations(batch)[j]

\* C5 witness: a candidate with no start time that carried a flag on entry, beside a
\* candidate of its school that the call flags
C5_Witness ==
    \E k \in DOMAIN calls :
        \E i, j \in DOMAIN calls[k].on_entry :
            /\ calls[k].on_entry[i].start_time = None
            /\ calls[k].on_entry[i].is_conflict
            /\ i # j
            /\ calls[k].returned[j].is_conflict
            /\ calls[k].returned[j].school = calls[k].returned[i].school

\* the case of C6: no existing session, history entry or other candidate has the
\* candidate's school, and no other candidate has its teacher, or it has none
\* (all trimmed and lower-cased)
Unrelated(batch, i) ==
    LET school == Lower(Strip(OrEmpty(batch[i].school)))
        teacher == Lower(Strip(OrEmpty(batch[i].teacher)))
    IN  /\ \A n \in DOMAIN existing_sessions :
              Lower(Strip(OrEmpty(existing_sessions[n].school))) # school
        /\ \A n \in DOMAIN historical_ticket_entries :
              Lower(Strip(OrEmpty(historical_ticket_entries[n].school))) # school
        /\ \A j \in DOMAIN batch \ {i} :
              Lower(Strip(OrEmpty(batch[j].school))) # school
        /\ \/ teacher = <<>>
           \/ \A j \in DOMAIN batch \ {i} :
                 Lower(Strip(OrEmpty(batch[j].teacher))) # teacher

\* C6: a candidate whose school no existing session, history entry or other
\* candidate has, and whose teacher is empty or no other candidate's, is left
\* unflagged.
C6_NoConflictAcrossSchools ==
    \A k \in DOMAIN calls :
        LET batch == calls[k].returned
        IN  \A i \in DOMAIN batch : Unrelated(batch, i) => ~batch[i].is_conflict

\* C6 witness: two overlapping candidates of different schools and of different,
\* non-empty teachers
C6_Witness ==
    \E k \in DOMAIN calls :
        LET batch == calls[k].returned
        IN  \E i, j \in DOMAIN batch :
                /\ i # j
                /\ Unrelated(batch, i)
                /\ Lower(Strip(OrEmpty(batch[i].teacher))) # <<>>
                /\ Lower(Strip(OrEmpty(batch[j].teacher))) # <<>>
                /\ batch[i].start_time # None
                /\ batch[j].start_time # None
                /\ StrictlyOverlap(StartOf(batch[i]), batch[i].length,
                                   StartOf(batch[j]), batch[j].length)

\* the case of C21: two candidates with start times that no earlier pass flags
\* (nothing in existing or history qualifies, and they are no booked pair of one
\* school), of one non-empty teacher after strip().lower(), strictly overlapping
TaughtPair(batch) ==
    /\ Len(batch) = 2
    /\ \A i \in 1..2 :
          /\ batch[i].start_time # None
          /\ QualifyingExisting(batch[i], batch) = {}
          /\ QualifyingHistory(batch[i]) = {}
    /\ ~BookedPair(batch)
    /\ Lower(Strip(OrEmpty(batch[1].teacher))) = Lower(Strip(OrEmpty(batch[2].teacher)))
    /\ Lower(Strip(OrEmpty(batch[1].teacher))) # <<>>
    /\ StrictlyOverlap(StartOf(batch[1]), batch[1].length,
                       StartOf(batch[2]), batch[2].length)

\* C21: two candidates with start times, unflagged after Pass 2, of one non-empty
\* teacher after trimming and lower-casing, strictly overlapping, are both flagged
\* `time` with the 'another in-progress session' detail naming the other, each
\* window being the other's interval, whatever their schools, statuses and
\* ticket-requested flags.
C21_TaughtPairFlagsBoth ==
    \A k \in DOMAIN calls :
        LET batch == calls[k].returned
        IN  TaughtPair(batch) =>
              \A i \in 1..2 :
                  LET c == batch[i]
                      o == batch[3 - i]
                  IN  /\ c.is_conflict
                      /\ c.conflict_type = "time"
                      /\ c.conflict_details =
                            <<"Conflicts with another in-progress session '", o.title, "'.">>
                      /\ WindowOf(c) = IsoInterval(StartOf(o), o.length)

\* C21 witness: such a pair of different schools, flagged by the call
C21_Witness ==
    \E k \in DOMAIN calls :
        LET batch == calls[k].returned
        IN  /\ TaughtPair(batch)
            /\ batch[1].school # batch[2].school
            /\ batch[1].is_conflict

\* the pass that flagged a candidate, by the wording of its annotation
FlaggedByPass3(session) ==
    /\ session.is_conflict
    /\ session.conflict_details[1] = "Conflicts with another in-progress session '"

FlaggedBySchoolPass(session) ==
    session.is_conflict /\ ~FlaggedByPass3(session)

InCandidatePass(session) ==
    /\ session.is_conflict
    /\ session.conflict_type = "time"
    /\ session.conflict_details # <<>>
    /\ session.conflict_details[1] \in {"Conflicts with another booked session '",
                                        "Conflicts with another in-progress session '"}

\* A carries the annotation Pass 2 or Pass 3 writes for a flag against B
FlaggedAgainst(a, b) ==
    /\ InCandidatePass(a)
    /\ a.conflict_details[2] = b.title
    /\ WindowOf(a) = IsoInterval(StartOf(b), b.length)

\* C22: a candidate A flagged against a partner B in Pass 2 or Pass 3 has a
\* flagged partner: B carries the reciprocal annotation of the same pass, naming
\* A with A's interval, or the annotation of an earlier pass.
C22_PartnerFlaggedToo ==
    \A k \in DOMAIN calls :
        LET batch == calls[k].returned
        IN  \A i, j \in DOMAIN batch :
                i # j /\ batch[j].start_time # None /\ FlaggedAgainst(batch[i], batch[j]) =>
                    /\ batch[j].is_conflict
                    /\ \/ /\ FlaggedAgainst(batch[j], batch[i])
                          /\ batch[j].conflict_details[1] = batch[i].conflict_details[1]
                       \/ ~InCandidatePass(batch[j])
                       \/ /\ FlaggedByPass3(batch[i])
                          /\ ~FlaggedByPass3(batch[j])

\* C22 witness: three candidates, the first two flagged against each other and
\* the third, which overlaps the second only, flagged against nobody
C22_Witness ==
    \E k \in DOMAIN calls :
        LET batch == calls[k].returned
        IN  /\ Len(batch) = 3
            /\ FlaggedAgainst(batch[1], batch[2])
            /\ FlaggedAgainst(batch[2], batch[1])
            /\ StrictlyOverlap(StartOf(batch[2]), batch[2].length,
                               StartOf(batch[3]), batch[3].length)
            /\ ~batch[3].is_conflict

\* a candidate Pass 2 compares: start time, status booked, ticket not requested
Bookable(session) ==
    /\ session.start_time # None
    /\ Lower(Strip(OrEmpty(session.status))) = <<"b", "o", "o", "k", "e", "d">>
    /\ ~session.gn_ticket_requested

\* two such candidates of one school whose intervals strictly overlap
BookedOverlap(a, b) ==
    /\ Bookable(a)
    /\ Bookable(b)
    /\ a.school = b.school
    /\ StrictlyOverlap(StartOf(a), a.length, StartOf(b), b.length)

\* two candidates of one non-empty teacher whose intervals strictly overlap
TaughtOverlap(a, b) ==
    /\ a.start_time # None
    /\ b.start_time # None
    /\ Lower(Strip(OrEmpty(a.teacher))) = Lower(Strip(OrEmpty(b.teacher)))
    /\ Lower(Strip(OrEmpty(a.teacher))) # <<>>
    /\ StrictlyOverlap(StartOf(a), a.length, StartOf(b), b.length)

\* C23: every candidate with a start time, booked and without ticket, whose
\* interval strictly overlaps that of another such candidate of its school, is
\* flagged, in batches of three and in any order.
C23_EveryOverlappingBookedCandidateFlagged ==
    \A k \in DOMAIN calls :
        LET batch == calls[k].returned
        IN  \A i, j \in DOMAIN batch :
                i # j /\ BookedOverlap(batch[i], batch[j]) => batch[i].is_conflict

\* C28: no two candidates that are both unflagged are booked, without ticket, of
\* one school and strictly overlapping, or of one non-empty teacher and strictly
\* overlapping.
C28_UnflaggedPairwiseConflictFree ==
    \A k \in DOMAIN calls :
        LET batch == calls[k].returned
        IN  \A i, j \in DOMAIN batch :
                i # j /\ ~batch[i].is_conflict /\ ~batch[j].is_conflict =>
                    /\ ~BookedOverlap(batch[i], batch[j])
                    /\ ~TaughtOverlap(batch[i], batch[j])

\* C28 witness: three bookable candidates of one school, the first and the third
\* of one teacher, that follow one another in time and are all left unflagged
C28_Witness ==
    \E k \in DOMAIN calls :
        LET batch == calls[k].returned
        IN  /\ Len(batch) = 3
            /\ \A i \in 1..3 : ~batch[i].is_conflict /\ Bookable(batch[i])
            /\ batch[1].school = batch[2].school
            /\ batch[2].school = batch[3].school
            /\ Lower(Strip(OrEmpty(batch[1].teacher))) # <<>>
            /\ batch[1].teacher = batch[3].teacher
            /\ StartOf(batch[1]) # StartOf(batch[3])

\* C27: the first pass that flags a candidate wins. A candidate with a qualifying
\* existing session ends with the Pass 1 annotation, kind `time`, also when a
\* history entry qualifies; the annotation a candidate has after the first loop,
\* and the one it has after Pass 2, is the one it is returned with.
C27_FirstFlagWins ==
    \A k \in DOMAIN calls :
        LET batch == calls[k].returned
            after_first == FirstLoop(calls[k].on_entry, existing_sessions,
                                     historical_ticket_entries)
            after_pass2 == Pass2(after_first, sessions_with_time(after_first), 1)
        IN  \A i \in DOMAIN batch :
                /\ batch[i].start_time # None /\ QualifyingExisting(batch[i], batch) # {} =>
                        FlaggedInPass1(batch[i])
                /\ after_first[i].is_conflict =>
                        Annotations(batch)[i] = Annotations(after_first)[i]
                /\ after_pass2[i].is_conflict =>
                        Annotations(batch)[i] = Annotations(after_pass2)[i]

\* C27 witness: a candidate with a qualifying existing session and a qualifying
\* history entry, returned with kind `time`
C27_Witness ==
    \E k \in DOMAIN calls :
        LET batch == calls[k].returned
        IN  \E i \in DOMAIN batch :
                /\ batch[i].start_time # None
                /\ QualifyingExisting(batch[i], batch) # {}
                /\ QualifyingHistory(batch[i]) # {}
                /\ batch[i].conflict_type = "time"

\* the intervals, as windows, of the items other than the candidate at position
\* i: existing sessions of another id, history entries of another session id and
\* the other candidates, each with a start time
OtherIntervals(batch, i) ==
    {IsoInterval(StartOf(existing_sessions[n]), existing_sessions[n].length) :
        n \in {m \in DOMAIN existing_sessions :
                  /\ existing_sessions[m].start_time # None
                  /\ existing_sessions[m].s_id # batch[i].s_id}}
    \cup {IsoInterval(fromisoformat(historical_ticket_entries[n].start_time[1])[1],
                      historical_ticket_entries[n].length) :
            n \in {m \in DOMAIN historical_ticket_entries :
                      LET h == historical_ticket_entries[m]
                      IN  /\ h.start_time # None
                          /\ h.start_time[1].iso
                          /\ h.session_id # Some(batch[i].s_id)}}
    \cup {IsoInterval(StartOf(batch[j]), batch[j].length) :
            j \in {m \in DOMAIN batch \ {i} : batch[m].start_time # None}}

\* C29: a returned candidate is unflagged exactly when its kind is none, its
\* detail empty and both window bounds null; a flagged one has the kind `time` or
\* `ghost_ticket`, a detail, and as window the interval of another session or
\* history entry.
C29_AnnotationConsistent ==
    \A k \in DOMAIN calls :
        LET batch == calls[k].returned
        IN  \A i \in DOMAIN batch :
                LET c == batch[i]
                    blank == /\ c.conflict_type = "None"
                             /\ c.conflict_details = <<>>
                             /\ c.conflict_start_iso = None
                             /\ c.conflict_end_iso = None
                IN  /\ ~c.is_conflict <=> blank
                    /\ c.is_conflict =>
                          /\ c.conflict_type \in {"time", "ghost_ticket"}
                          /\ c.conflict_details # <<>>
                          /\ c.conflict_start_iso # None
                          /\ c.conflict_end_iso # None
                          /\ WindowOf(c) \in OtherIntervals(batch, i)

\* C29 witness: a batch returned with an unflagged candidate and a flagged one whose
\* window is not its own interval
C29_Witness ==
    \E k \in DOMAIN calls :
        LET batch == calls[k].returned
        IN  \E i, j \in DOMAIN batch :
                /\ ~batch[i].is_conflict
                /\ batch[i].start_time # None
                /\ batch[j].is_conflict
                /\ WindowOf(batch[j]) # IsoInterval(StartOf(batch[j]), batch[j].length)

---------------------------------------------------------------------------
(* Properties of the detector on malformed input *)

\* C18: no call of the detector raises, whatever timestamp, duration, school or
\* teacher is missing or malformed in a candidate, an existing session or a
\* history entry.
C18_DetectNeverRaises ==
    \A k \in DOMAIN calls : ~calls[k].raised

\* a list whose items all have the duration 0
AllOfDurationZero(list) ==
    /\ list # <<>>
    /\ \A n \in DOMAIN list : "length" \in DOMAIN list[n] /\ list[n].length = 0

\* C25: a candidate with a start time and duration 0 is flagged by no pass, and no
\* other candidate is flagged against it; existing sessions of duration 0 cause no
\* Pass 1 flag and history entries of duration 0 no Pass 1b flag.
C25_ZeroDurationOverlapsNothing ==
    \A k \in DOMAIN calls :
        LET batch == calls[k].returned
        IN  ~calls[k].raised =>
              /\ \A i \in DOMAIN batch :
                    "length" \in DOMAIN batch[i] /\ batch[i].length = 0
                                                /\ batch[i].start_time # None =>
                        /\ ~batch[i].is_conflict
                        /\ \A j \in DOMAIN batch \ {i} : ~Names(batch[j], batch[i].title)
              /\ AllOfDurationZero(existing_sessions) =>
                    \A i \in DOMAIN batch : ~FlaggedInPass1(batch[i])
              /\ AllOfDurationZero(historical_ticket_entries) =>
                    \A i \in DOMAIN batch : batch[i].conflict_type # "ghost_ticket"

\* the item with a negative duration replaced by 0
NegativeAsZero(list) ==
    [n \in DOMAIN list |->
        IF "length" \in DOMAIN list[n] /\ list[n].length < 0
        THEN [list[n] EXCEPT !.length = 0]
        ELSE list[n]]

\* C26: the annotations a call returns are those it returns when every negative
\* duration of a candidate, existing session or history entry is replaced by 0.
C26_NegativeDurationIsZero ==
    \A k \in DOMAIN calls :
        ~calls[k].raised =>
            Annotations(calls[k].returned) =
                Annotations(check_for_time_conflicts(
                                NegativeAsZero(calls[k].on_entry),
                                NegativeAsZero(existing_sessions),
                                NegativeAsZero(historical_ticket_entries)))

\* C19: a candidate without a school is never flagged by Pass 1, 1b or 2, and a
\* candidate without a teacher is never flagged by Pass 3.
C19_MissingGroupingFieldNeverFlagged ==
    \A k \in DOMAIN calls :
        LET batch == calls[k].returned
        IN  \A i \in DOMAIN batch :
                /\ Normalized(batch[i].school) = <<>> => ~FlaggedBySchoolPass(batch[i])
                /\ Normalized(batch[i].teacher) = <<>> => ~FlaggedByPass3(batch[i])

---------------------------------------------------------------------------
(* Properties of the log store *)

\* the retention window in seconds, as the statements measure it
Retention == retention_days * 24 * 60 * 60

\* the submission timestamp an entry returned by get_entries carries
SubmittedAt(entry) == fromisoformat(entry.submitted_at[1])[1]

\* the rows of a table stamped at the given time
StampedAt(rows, t) == {i \in DOMAIN rows : rows[i].submitted_at = t}

\* the rows of a table, without their order
RowsOf(rows) == {rows[i] : i \in DOMAIN rows}

\* C7: under every interleaving of prune, append and query, a prune executed at
\* clock time t removes exactly the entries stamped strictly before t minus the
\* retention window: every entry stamped at or after t - retention is still there, in
\* its place, no entry stamped before it is, and a second prune at the same time
\* changes nothing.
C7_PruneRemovesExactlyExpired ==
    \A k \in DOMAIN prunes :
        LET p == prunes[k]
            InWindow(row) == row.submitted_at >= p.at - Retention
        IN  /\ p.after = SelectSeq(p.before, InWindow)
            /\ \A row \in RowsOf(p.before) \ RowsOf(p.after) :
                  row.submitted_at < p.at - Retention
            /\ k > 1 /\ prunes[k - 1].at = p.at =>
                  /\ p.before = prunes[k - 1].after
                  /\ p.after = p.before

\* C7: after an append, a prune met an entry 1 s outside the window and one 1 s
\* inside it, and was followed by a second prune at the same time.
C7_Witness ==
    /\ appended # <<>>
    /\ Len(prunes) = 2
    /\ prunes[2].at = prunes[1].at
    /\ StampedAt(prunes[1].before, prunes[1].at - Retention - 1) # {}
    /\ StampedAt(prunes[1].before, prunes[1].at - Retention + 1) # {}
    /\ StampedAt(prunes[1].after, prunes[1].at - Retention - 1) = {}
    /\ StampedAt(prunes[1].after, prunes[1].at - Retention + 1) # {}

\* C8: every entry that a call of get_entries returns was submitted within the
\* retention window measured when the entries are read, also when the clock advances
\* between the call's prune and its select.
C8_NoReadReturnsExpired ==
    read # None /\ read[1].outcome = "returned" =>
        \A i \in DOMAIN read[1].entries :
            SubmittedAt(read[1].entries[i]) >= read[1].at - Retention

\* the last call of add_successful_submissions
LastAppend == appended[Len(appended)]

\* the last call of get_entries ran with no append and no tick of the clock between
\* its two transactions, for the user of the last append, which passed one submission
\* when no row of the user was within the retention window, and returned
ReadsBackLastAppend ==
    /\ read # None
    /\ read[1].outcome = "returned"
    /\ appended # <<>>
    /\ ~read[1].interrupted
    /\ read[1].user_email # None
    /\ Normalized(read[1].user_email) = Lower(Strip(LastAppend.user_email))
    /\ LastAppend.outcome = "returned"
    /\ Len(LastAppend.successful_sessions) = 1
    /\ ~LastAppend.had_live_rows

\* C11: a call of get_entries with an e-mail returns exactly the entries of the rows,
\* within the retention window when they are read, that were appended under an
\* e-mail equal to it after strip() and lower(), and a call without e-mail those of
\* all users: every returned entry is such a row, every such row of the table is
\* returned, and so is every submission of an append that returned.
C11_QueryReturnsEntriesOfUser ==
    read # None /\ read[1].outcome = "returned" =>
        LET r == read[1]
            Mine(user_id) == r.user_email = None \/ user_id = Normalized(r.user_email)
            live == {row \in RowsOf(ticket_submissions) :
                        /\ Mine(row.user_id)
                        /\ row.submitted_at >= r.at - Retention}
        IN  /\ {r.entries[i] : i \in DOMAIN r.entries} =
                   {EntryOf(row, r.user_email) : row \in live}
            /\ \A k \in DOMAIN appended :
                  LET a == appended[k]
                  IN  /\ a.outcome = "returned"
                      /\ Mine(Lower(Strip(a.user_email)))
                      /\ a.at >= r.at - Retention
                      => \A i \in DOMAIN a.successful_sessions :
                            \E j \in DOMAIN r.entries :
                                /\ SubmittedAt(r.entries[j]) = a.at
                                /\ r.entries[j].ticket_id =
                                       a.successful_sessions[i].ticket_id

\* C12: when the persistence layer fails while get_entries runs, in prune or in the
\* select, get_entries returns the empty list and does not raise.
C12_FailedQueryReturnsEmpty ==
    read # None /\ read[1].failed # "no" =>
        /\ read[1].outcome = "returned"
        /\ read[1].entries = <<>>

\* C9: after the append of one submission for a user with no other entry within the
\* retention window, a query for the user at the same clock time returns exactly one
\* entry, with the submitted ticket id (so none of the user's older entries with it),
\* and a query once the clock is past the retention window returns none.
C9_LogRoundTrip ==
    ReadsBackLastAppend =>
        /\ read[1].at = LastAppend.at =>
              /\ Len(read[1].entries) = 1
              /\ read[1].entries[1].ticket_id = LastAppend.successful_sessions[1].ticket_id
        /\ read[1].at > LastAppend.at + Retention => read[1].entries = <<>>

\* C10: a call of add_successful_submissions with n >= 1 submissions that returns
\* normally has committed exactly n rows, the i-th with the i-th ticket id, all
\* stamped with the clock time of the call.
C10_AppendPersistsAllOrSignals ==
    \A k \in DOMAIN appended :
        LET a == appended[k]
        IN  a.outcome = "returned" /\ Len(a.successful_sessions) >= 1 =>
                /\ Len(a.persisted) = Len(a.successful_sessions)
                /\ \A i \in DOMAIN a.persisted :
                      /\ a.persisted[i].submitted_at = a.at
                      /\ a.persisted[i].ticket_id = a.successful_sessions[i].ticket_id

\* the window the specification gives a store constructed without a retention
SpecifiedDefaultRetention == 30 * 24 * 60 * 60

\* C13: the rows stored for a session the handler completed carry the session's
\* id, title, school, teacher, ticket id, start time and duration.
C13_StoredEntryCarriesSubmittedSession ==
    \A k \in DOMAIN appended :
        LET a == appended[k]
        IN  \A i \in DOMAIN a.persisted :
                a.successful_sessions[i] = successful_session(CompletedSession, "REQ2") =>
                    /\ a.persisted[i].ticket_id = Some("REQ2")
                    /\ a.persisted[i].title = Some(CompletedSession.title)
                    /\ a.persisted[i].session_id = Some(CompletedSession.s_id)
                    /\ a.persisted[i].school = CompletedSession.school
                    /\ a.persisted[i].teacher = CompletedSession.teacher
                    /\ a.persisted[i].start_time = CompletedSession.start_time
                    /\ a.persisted[i].length = CompletedSession.length

\* C20: a store constructed without an explicit retention, as scan_user and
\* book_sessions construct it, returns no entry submitted more than 30 days before
\* the read.
C20_DefaultRetentionIsThirtyDays ==
    /\ retention_days = DefaultRetentionDays
    /\ read # None
    /\ read[1].outcome = "returned"
    /\ ~read[1].interrupted
    => \A i \in DOMAIN read[1].entries :
          SubmittedAt(read[1].entries[i]) >= read[1].at - SpecifiedDefaultRetention

---------------------------------------------------------------------------
(* Properties of the scheduled tasks *)

FinishedScan == finished # None /\ finished[1].task.name = "scan_user"

Flagged(sessions) == SelectSeq(sessions, IsConflict)

C15_CleanScanBooksAllCandidates ==
    FinishedScan /\ airtable[finished[1].task.user_email] # <<>>
                 /\ Flagged(finished[1].candidates) = <<>> =>
        LET done == finished[1]
        IN  /\ done.outcome = "returned"
            /\ done.notified = <<>>
            /\ done.enqueued =
                  <<Task("book_sessions", done.task.user_email,
                         Ids(airtable[done.task.user_email]))>>

\* C17: no two workers execute scan_user or book_sessions tasks of the same user
\* at the same time.
C17_SameUserTasksSerialized ==
    \A w1, w2 \in Workers :
        /\ w1 # w2
        /\ running[w1] # None
        /\ running[w2] # None
        /\ running[w1][1].name \in {"scan_user", "book_sessions"}
        /\ running[w2][1].name \in {"scan_user", "book_sessions"}
        => running[w1][1].user_email # running[w2][1].user_email

\* the tasks the broker holds or a worker executes
Pending ==
    {queue[i] : i \in DOMAIN queue} \cup
    {running[w][1] : w \in {v \in Workers : running[v] # None}}

---------------------------------------------------------------------------
(* Properties of the interactive booking path *)

---------------------------------------------------------------------------
(* Properties of the progress store *)

\* C30: whatever the threads have called, the list get_progress returns for an id
\* has at most 50 entries, their seq numbers increase by one from each entry to
\* the next, and the seq of the last entry is the number of set_progress calls
\* made for that id since it was last cleared.
C30_ProgressIsMostRecent ==
    progress # None =>
        LET entries == progress[1].entries
        IN  /\ Len(entries) <= Maxlen
            /\ \A i \in 1..(Len(entries) - 1) : entries[i + 1].seq = entries[i].seq + 1
            /\ entries # <<>> => entries[Len(entries)].seq = progress[1].set_calls

\* get_progress returns a full deque that has dropped its oldest entries
C30_Witness ==
    /\ progress # None
    /\ Len(progress[1].entries) = Maxlen
    /\ progress[1].entries[1].seq > 1
    /\ progress[1].set_calls > Maxlen

====
